---- MODULE Spec2Model ----
(***************************************************************************)
(* Model of the ADVBOX DJEN repository:                                    *)
(*   - src/server.js: the Express reverse proxy (GET /, /health, /djen)    *)
(*   - src/create_tables.sql and the DDL in src/SETUP_SUPABASE.md: the     *)
(*     notice store and the run-log table.                                 *)
(* Timestamps (new Date(), process.uptime(), NOW()) are left out: no       *)
(* control flow depends on them.                                           *)
(***************************************************************************)
EXTENDS Integers, Sequences, FiniteSets, TLC

VARIABLES req, pc, calls, outcome, responses,
          tables, notices, logs, nextUuid, writer, scriptRuns

proxyVars == <<req, pc, calls, outcome, responses>>

storeVars == <<tables, notices, logs, nextUuid, writer, scriptRuns>>

vars == <<req, pc, calls, outcome, responses,
          tables, notices, logs, nextUuid, writer, scriptRuns>>

(***************************************************************************)
(* Request inputs                                                          *)
(***************************************************************************)

\* the concurrent client requests in flight
Reqs == {"r1", "r2"}

\* a query-string key that is not in the URL: req.query.<key> is undefined
Absent == "<undefined>"

Methods == {"GET", "HEAD", "POST", "OPTIONS"}

Paths == {"/", "/health", "/djen", "/outro"}

QueryKeys == {"nomeAdvogado", "dataDisponibilizacaoInicio", "dataDisponibilizacaoFim",
              "itensPorPagina", "meio", "extra"}

EmptyQuery == [k \in QueryKeys |-> Absent]

\* the optional keys of a query: <<nomeAdvogado, itensPorPagina, meio, extra>>
OptionalProfiles ==
    { <<Absent, Absent, Absent, Absent>>,
      <<"Maria Souza", "50", "E", "1">>,
      <<"", Absent, Absent, Absent>>,
      <<"Maria Souza", Absent, Absent, Absent>>,
      <<Absent, "50", Absent, Absent>>,
      <<Absent, Absent, "E", Absent>> }

\* the query strings a client sends to /djen
DjenQueries ==
    { [nomeAdvogado |-> o[1], dataDisponibilizacaoInicio |-> di,
       dataDisponibilizacaoFim |-> df, itensPorPagina |-> o[2], meio |-> o[3],
       extra |-> o[4]] :
         o \in OptionalProfiles,
         di \in {"", "2025-07-21"},
         df \in {Absent, "2025-07-22"} }

\* only the /djen handler reads req.query, and it runs only for requests the
\* middleware chain lets through to the app.get('/djen') route
QueriesFor(m, p, b) ==
    IF p = "/djen" /\ m \in {"GET", "HEAD"} /\ b THEN DjenQueries ELSE {EmptyQuery}

RequestsIn ==
    UNION { { [method |-> m, path |-> p, bodyOk |-> b, query |-> q] :
                q \in QueriesFor(m, p, b) } :
            m \in Methods, p \in Paths, b \in BOOLEAN }

NoReq == [method |-> "", path |-> "", bodyOk |-> TRUE, query |-> EmptyQuery]

\* JavaScript truthiness of a query value (undefined and '' are falsy)
Falsy(v) == v = Absent \/ v = ""

(***************************************************************************)
(* Upstream outcomes of axios.get                                          *)
(***************************************************************************)

\* response.data after axios parsed the upstream body
BodyNull == "null"
BodyEmpty == ""
BodyFull == "{count:2,items:[a,b]}"
BodyNoFields == "{}"

\* resolved promise: axios' default validateStatus accepts 2xx only
OkOutcomes ==
    { [kind |-> "ok", status |-> 200, data |-> b] :
         b \in {BodyNull, BodyEmpty, BodyFull, BodyNoFields} }
    \cup { [kind |-> "ok", status |-> 204, data |-> BodyEmpty] }

\* rejected promise with error.response set
HttpErrorOutcomes ==
    { [kind |-> "http_error", status |-> s, data |-> BodyEmpty] : s \in {403, 503} }

\* rejected promise without error.response (network error, 30 s timeout)
NoResponseOutcomes ==
    { [kind |-> k, status |-> 0, data |-> BodyEmpty] : k \in {"network", "timeout"} }

Outcomes == OkOutcomes \cup HttpErrorOutcomes \cup NoResponseOutcomes

NoOutcome == [kind |-> "none", status |-> 0, data |-> BodyEmpty]

(***************************************************************************)
(* Express routing (Express 4)                                             *)
(***************************************************************************)

\* app.get(path, ...) registers the handler for GET, and Express also runs it
\* for HEAD when no app.head() route was registered for the path
AppGetMatches(route, rq) == rq.method \in {"GET", "HEAD"} /\ rq.path = route

\* cors() answers every OPTIONS request itself (preflightContinue: false)
IsPreflight(rq) == rq.method = "OPTIONS"

\* express.json() passes a 400 error to next() when the JSON body is malformed
BodyParseFails(rq) == ~rq.bodyOk

\* the request passed cors(), express.json() and the logging middleware
ReachesRouter(rq) == ~IsPreflight(rq) /\ ~BodyParseFails(rq)

MatchesSomeRouteNoHealth(rq) ==
    AppGetMatches("/", rq) \/ AppGetMatches("/djen", rq)

\* the three app.get registrations that precede app.use('*')
MatchesSomeRoute(rq) ==
    AppGetMatches("/", rq) \/ AppGetMatches("/health", rq) \/ AppGetMatches("/djen", rq)

(***************************************************************************)
(* The /djen handler                                                       *)
(***************************************************************************)

apiUrl == "https://comunicaapi.pje.jus.br/api/v1/comunicacao"

RelayKeys == {"nomeAdvogado", "dataDisponibilizacaoInicio", "dataDisponibilizacaoFim",
              "itensPorPagina", "meio"}

\* destructuring default: applies only when the property is undefined
DefaultFalsy(v, d) == IF Falsy(v) THEN d ELSE v

Default(v, d) == IF v = Absent THEN d ELSE v

\* the validation sketch that forgets the end date
MissingRequiredInicioOnly(q) == Falsy(q.dataDisponibilizacaoInicio)

\* if (!dataDisponibilizacaoInicio || !dataDisponibilizacaoFim)
MissingRequired(q) ==
    Falsy(q.dataDisponibilizacaoInicio) \/ Falsy(q.dataDisponibilizacaoFim)

\* const params = { nomeAdvogado, dataDisponibilizacaoInicio, ... }
RelayParams(q) ==
    [nomeAdvogado |-> Default(q.nomeAdvogado, "Eduardo Koetz"),
     dataDisponibilizacaoInicio |-> q.dataDisponibilizacaoInicio,
     dataDisponibilizacaoFim |-> q.dataDisponibilizacaoFim,
     itensPorPagina |-> Default(q.itensPorPagina, "100"),
     meio |-> Default(q.meio, "D")]

AxiosGetTwice(cs, url, params) ==
    cs \o << [url |-> url, params |-> params, timeout |-> 30000],
             [url |-> url, params |-> params, timeout |-> 30000] >>

\* axios.get(apiUrl, { params, timeout: 30000, headers }): one HTTP attempt
AxiosGet(cs, url, params) ==
    Append(cs, [url |-> url, params |-> params, timeout |-> 30000])

SendTwice(rs, resp) == rs \o <<resp, resp>>

\* res.json(...) / res.end(): one response written to the client
Send(rs, resp) == Append(rs, resp)

ValidationResponse(q) ==
    [handler |-> "djen", status |-> 400,
     body |-> [success |-> FALSE,
               error |-> "Parametros obrigatorios: dataDisponibilizacaoInicio, dataDisponibilizacaoFim",
               received_params |-> q]]

\* response.data.count / response.data.items on the parsed body
DataCount(data) == IF data = BodyFull THEN 2 ELSE 0

DataItemsLength(data) == IF data = BodyFull THEN 2 ELSE 0

\* reading a property of null throws a TypeError
PropertyReadThrows(data) == data = BodyNull

SuccessResponse(params, out) ==
    [handler |-> "djen", status |-> 200,
     body |-> [success |-> TRUE,
               proxy_info |-> [service |-> "Render.com", method |-> "axios_get",
                               status_code |-> out.status,
                               parametros_enviados |-> params],
               api_response |-> out.data,
               stats |-> [total_intimacoes |-> DataCount(out.data),
                          total_items |-> DataItemsLength(out.data)]]]

\* the value bound to `error` in the catch block
AxiosError(out) ==
    [message |-> CASE out.kind = "http_error" ->
                        "Request failed with status code " \o ToString(out.status)
                   [] out.kind = "timeout" -> "timeout of 30000ms exceeded"
                   [] OTHER -> "Network Error",
     hasResponse |-> out.kind = "http_error",
     status |-> out.status]

TypeErrorNull ==
    [message |-> "Cannot read properties of null (reading 'count')",
     hasResponse |-> FALSE, status |-> 0]

StatusCodeAlways500(err) == 500

\* const statusCode = error.response ? error.response.status : 500
StatusCode(err) == IF err.hasResponse THEN err.status ELSE 500

CatchResponse(q, err) ==
    [handler |-> "djen", status |-> StatusCode(err),
     body |-> [success |-> FALSE, error |-> err.message,
               debug_info |-> [service |-> "Render.com",
                               axios_error |-> IF err.hasResponse
                                                 THEN "status " \o ToString(err.status)
                                                 ELSE "Network/timeout error",
                               request_params |-> q]]]

\* the handler's continuation after `await axios.get(...)`
AfterAwait(q, params, out) ==
    IF out.kind = "ok"
      THEN IF PropertyReadThrows(out.data)
             THEN CatchResponse(q, TypeErrorNull)
             ELSE SuccessResponse(params, out)
      ELSE CatchResponse(q, AxiosError(out))

(***************************************************************************)
(* Actions of the proxy                                                    *)
(***************************************************************************)

\* a request arrives and a handler that answers synchronously answers it
Answer(r, rq, resp) ==
    /\ pc[r] = "idle"
    /\ req' = [req EXCEPT ![r] = rq]
    /\ responses' = [responses EXCEPT ![r] = Send(@, resp)]
    /\ pc' = [pc EXCEPT ![r] = "done"]
    /\ UNCHANGED <<calls, outcome>>
    /\ UNCHANGED storeVars

CorsPreflight(r) ==
    \E rq \in RequestsIn :
        /\ IsPreflight(rq)
        /\ Answer(r, rq, [handler |-> "cors", status |-> 204, body |-> [empty |-> TRUE]])

JsonBodyError(r) ==
    \E rq \in RequestsIn :
        /\ ~IsPreflight(rq)
        /\ BodyParseFails(rq)
        /\ Answer(r, rq, [handler |-> "errorHandler", status |-> 400,
                          body |-> [empty |-> TRUE]])

GetRoot(r) ==
    \E rq \in RequestsIn :
        /\ ReachesRouter(rq)
        /\ AppGetMatches("/", rq)
        /\ Answer(r, rq, [handler |-> "root", status |-> 200,
                          body |-> [service |-> "ADVBOX DJEN Proxy", status |-> "online",
                                    version |-> "1.0.0"]])

GetHealth(r) ==
    \E rq \in RequestsIn :
        /\ ReachesRouter(rq)
        /\ AppGetMatches("/health", rq)
        /\ Answer(r, rq, [handler |-> "health", status |-> 200,
                          body |-> [status |-> "healthy"]])

DjenReject(r) ==
    \E rq \in RequestsIn :
        /\ ReachesRouter(rq)
        /\ AppGetMatches("/djen", rq)
        /\ MissingRequired(rq.query)
        /\ Answer(r, rq, ValidationResponse(rq.query))

\* the handler runs up to `await axios.get(...)`
DjenCall(r) ==
    \E rq \in RequestsIn :
        /\ pc[r] = "idle"
        /\ ReachesRouter(rq)
        /\ AppGetMatches("/djen", rq)
        /\ ~MissingRequired(rq.query)
        /\ req' = [req EXCEPT ![r] = rq]
        /\ calls' = [calls EXCEPT ![r] = AxiosGet(@, apiUrl, RelayParams(rq.query))]
        /\ pc' = [pc EXCEPT ![r] = "awaiting"]
        /\ UNCHANGED <<outcome, responses>>
        /\ UNCHANGED storeVars

\* the upstream call settles and the handler runs to its end
UpstreamSettles(r) ==
    \E out \in Outcomes :
        /\ pc[r] = "awaiting"
        /\ outcome' = [outcome EXCEPT ![r] = out]
        /\ responses' = [responses EXCEPT ![r] =
               Send(@, AfterAwait(req[r].query, calls[r][Len(calls[r])].params, out))]
        /\ pc' = [pc EXCEPT ![r] = "done"]
        /\ UNCHANGED <<req, calls>>
        /\ UNCHANGED storeVars

NotFound(r) ==
    \E rq \in RequestsIn :
        /\ ReachesRouter(rq)
        /\ ~MatchesSomeRoute(rq)
        /\ Answer(r, rq, [handler |-> "notFound", status |-> 404,
                          body |-> [error |-> "Endpoint nao encontrado",
                                    available_endpoints |-> <<"/", "/health", "/djen">>,
                                    requested |-> rq.path]])

ProxyNext ==
    \E r \in Reqs :
        \/ CorsPreflight(r)
        \/ JsonBodyError(r)
        \/ GetRoot(r)
        \/ GetHealth(r)
        \/ DjenReject(r)
        \/ DjenCall(r)
        \/ UpstreamSettles(r)
        \/ NotFound(r)

(***************************************************************************)
(* The database: create_tables.sql and the DDL of SETUP_SUPABASE.md        *)
(***************************************************************************)

\* rows the database may hold in total (one fresh uuid per row)
MaxRows == 3

\* times create_tables.sql is executed
MaxScriptRuns == 2

\* concurrent writers of the ingestion pipeline
Writers == {"w1", "w2"}

NULL == "<NULL>"

\* intimacoes_eduardo_koetz is created by create_tables.sql, intimacoes_djen
\* by the DDL of SETUP_SUPABASE.md
NoticeTables == {"intimacoes_eduardo_koetz", "intimacoes_djen"}

LogTables == {"logs_extracao_djen", "logs_execucao"}

\* the records a writer tries to insert
NoticeInputs ==
    { [id_intimacao |-> i, conteudo_texto |-> c, hash_conteudo |-> h] :
         i \in {"i1", "i2"}, c \in {NULL, "texto"}, h \in {NULL, "h1"} }

NoRecord == [id_intimacao |-> NULL, conteudo_texto |-> NULL, hash_conteudo |-> NULL]

\* status_execucao VARCHAR(50), -- 'sucesso', 'erro', 'parcial'
RunStatuses == {"sucesso", "erro", "parcial"}

NotNullColumns(t) == {"id_intimacao", "conteudo_texto"}

UniqueColumnsWithoutId(t) ==
    IF t = "intimacoes_eduardo_koetz" THEN {"hash_conteudo"} ELSE {}

\* the UNIQUE column constraints of each CREATE TABLE
UniqueColumns(t) ==
    IF t = "intimacoes_eduardo_koetz"
      THEN {"id_intimacao", "hash_conteudo"}
      ELSE {"id_intimacao"}

\* the INSERT is rejected: a NOT NULL column is NULL, or a UNIQUE column
\* repeats a non-NULL value of a stored row
ViolatesConstraint(t, rec, stored) ==
    \/ \E c \in NotNullColumns(t) : rec[c] = NULL
    \/ \E c \in UniqueColumns(t) : \E e \in stored : rec[c] # NULL /\ e[c] = rec[c]

\* the row as stored: id UUID DEFAULT gen_random_uuid()
NoticeRow(uuid, rec) ==
    [id |-> uuid, id_intimacao |-> rec.id_intimacao,
     conteudo_texto |-> rec.conteudo_texto, hash_conteudo |-> rec.hash_conteudo,
     status_processamento |-> "extraido"]

LogRow(uuid, status) ==
    [id |-> uuid, total_encontradas |-> 0, total_novas |-> 0, total_duplicadas |-> 0,
     status_execucao |-> status]

\* INSERT INTO logs_extracao_djen (...) VALUES (0, 0, 0, 'sistema_criado', ...)
SeedRow(uuid) == LogRow(uuid, "sistema_criado")

IdleWriter(last, via) ==
    [pc |-> "idle", table |-> "", rec |-> NoRecord, last |-> last, via |-> via]

StoreInit ==
    /\ tables = {}
    /\ notices = [t \in NoticeTables |-> {}]
    /\ logs = [t \in LogTables |-> {}]
    /\ nextUuid = 1
    /\ writer = [w \in Writers |-> IdleWriter("none", "none")]
    /\ scriptRuns = 0

\* one execution of create_tables.sql: CREATE TABLE IF NOT EXISTS for both
\* tables, then the INSERT of the initial run-log row; ON CONFLICT DO NOTHING
\* finds no conflict because the only unique column is the fresh uuid
RunCreateTablesSql ==
    /\ scriptRuns < MaxScriptRuns
    /\ nextUuid <= MaxRows
    /\ tables' = tables \cup {"intimacoes_eduardo_koetz", "logs_extracao_djen"}
    /\ logs' = [logs EXCEPT !["logs_extracao_djen"] = @ \cup {SeedRow(nextUuid)}]
    /\ nextUuid' = nextUuid + 1
    /\ scriptRuns' = scriptRuns + 1
    /\ UNCHANGED <<notices, writer>>
    /\ UNCHANGED proxyVars

\* the CREATE TABLE statements of SETUP_SUPABASE.md (no IF NOT EXISTS: a
\* second execution fails and changes nothing)
RunSetupDocSql ==
    /\ "intimacoes_djen" \notin tables
    /\ tables' = tables \cup {"intimacoes_djen", "logs_execucao"}
    /\ UNCHANGED <<notices, logs, nextUuid, writer, scriptRuns>>
    /\ UNCHANGED proxyVars

\* verificar_duplicata(): the writer looks the id up before inserting
WriterCheck(w) ==
    \E t \in NoticeTables \cap tables : \E rec \in NoticeInputs :
        /\ writer[w].pc = "idle"
        /\ writer' = [writer EXCEPT ![w] =
              IF \E e \in notices[t] : e.id_intimacao = rec.id_intimacao
                THEN IdleWriter("Duplicate", "check")
                ELSE [pc |-> "insert", table |-> t, rec |-> rec,
                      last |-> "none", via |-> "none"]]
        /\ UNCHANGED <<tables, notices, logs, nextUuid, scriptRuns>>
        /\ UNCHANGED proxyVars

\* the INSERT statement: the database checks the constraints and adds the
\* row in one atomic step; a rejected insert is reported as Duplicate
WriterInsert(w) ==
    /\ writer[w].pc = "insert"
    /\ nextUuid <= MaxRows
    /\ LET t == writer[w].table
           rec == writer[w].rec
       IN  IF ViolatesConstraint(t, rec, notices[t])
             THEN /\ writer' = [writer EXCEPT ![w] = IdleWriter("Duplicate", "constraint")]
                  /\ UNCHANGED <<notices, nextUuid>>
             ELSE /\ notices' = [notices EXCEPT ![t] = @ \cup {NoticeRow(nextUuid, rec)}]
                  /\ nextUuid' = nextUuid + 1
                  /\ writer' = [writer EXCEPT ![w] = IdleWriter("Inserted", "insert")]
    /\ UNCHANGED <<tables, logs, scriptRuns>>
    /\ UNCHANGED proxyVars

\* the orchestrator writes the run-log row of one run
InsertRunLog ==
    \E t \in LogTables \cap tables : \E st \in RunStatuses :
        /\ nextUuid <= MaxRows
        /\ logs' = [logs EXCEPT ![t] = @ \cup {LogRow(nextUuid, st)}]
        /\ nextUuid' = nextUuid + 1
        /\ UNCHANGED <<tables, notices, writer, scriptRuns>>
        /\ UNCHANGED proxyVars

StoreNext ==
    \/ RunCreateTablesSql
    \/ RunSetupDocSql
    \/ \E w \in Writers : WriterCheck(w)
    \/ \E w \in Writers : WriterInsert(w)
    \/ InsertRunLog

(***************************************************************************)
(* Init and specifications                                                 *)
(***************************************************************************)

ProxyInit ==
    /\ req = [r \in Reqs |-> NoReq]
    /\ pc = [r \in Reqs |-> "idle"]
    /\ calls = [r \in Reqs |-> <<>>]
    /\ outcome = [r \in Reqs |-> NoOutcome]
    /\ responses = [r \in Reqs |-> <<>>]

Init == ProxyInit /\ StoreInit

Next == ProxyNext \/ StoreNext

Spec == Init /\ [][Next]_vars

\* the proxy process alone (the database is not touched by server.js)
SpecProxy == Init /\ [][ProxyNext]_vars

\* the database alone
SpecStore == Init /\ [][StoreNext]_vars

FairSpecProxy == SpecProxy /\ \A r \in Reqs : WF_vars(UpstreamSettles(r))

(***************************************************************************)
(* Properties of the proxy                                                 *)
(***************************************************************************)

Arrived(r) == pc[r] # "idle"

IsGetDjen(rq) == rq.method = "GET" /\ rq.path = "/djen"

DatesMissing(q) ==
    \/ q.dataDisponibilizacaoInicio \in {Absent, ""}
    \/ q.dataDisponibilizacaoFim \in {Absent, ""}

\* C1: every GET /djen request in which dataDisponibilizacaoInicio or
\* dataDisponibilizacaoFim is absent or empty is answered with HTTP 400 and
\* causes no upstream call.
C1_MissingDate400 ==
    \A r \in Reqs :
        (Arrived(r) /\ IsGetDjen(req[r]) /\ DatesMissing(req[r].query)) =>
            /\ pc[r] = "done"
            /\ Len(responses[r]) = 1
            /\ responses[r][1].status = 400
            /\ calls[r] = <<>>

C1_Witness ==
    \E r \in Reqs :
        /\ IsGetDjen(req[r]) /\ req[r].bodyOk
        /\ req[r].query.dataDisponibilizacaoInicio = "2025-07-21"
        /\ req[r].query.dataDisponibilizacaoFim = Absent
        /\ pc[r] = "done"
        /\ responses[r][1].handler = "djen"
        /\ responses[r][1].status = 400
        /\ calls[r] = <<>>

\* C2: whenever the upstream call of a GET /djen request succeeds (any 2xx,
\* whatever the body, an empty or null body included), the proxy returns a
\* success envelope with the upstream body unmodified, the upstream status
\* and the parameters of the request.
C2_SuccessEnvelope ==
    \A r \in Reqs :
        (pc[r] = "done" /\ IsGetDjen(req[r]) /\ outcome[r].kind = "ok") =>
            /\ Len(responses[r]) = 1
            /\ responses[r][1].body.success = TRUE
            /\ responses[r][1].body.api_response = outcome[r].data
            /\ responses[r][1].body.proxy_info.status_code = outcome[r].status
            /\ responses[r][1].body.proxy_info.parametros_enviados = calls[r][1].params

\* C3: whenever the upstream call of a GET /djen request fails, the response
\* status is the status the upstream returned, or 500 when no upstream
\* response was received; the envelope has success=false, names the cause and
\* echoes the request parameters; it is never a success envelope.
C3_FailureEnvelope ==
    \A r \in Reqs :
        (pc[r] = "done" /\ IsGetDjen(req[r])
            /\ outcome[r].kind \in {"http_error", "network", "timeout"}) =>
            /\ Len(responses[r]) = 1
            /\ responses[r][1].status =
                   (IF outcome[r].kind = "http_error" THEN outcome[r].status ELSE 500)
            /\ responses[r][1].body.success = FALSE
            /\ responses[r][1].body.error # ""
            /\ responses[r][1].body.debug_info.request_params = req[r].query

C3_Witness ==
    \E r \in Reqs :
        /\ pc[r] = "done" /\ IsGetDjen(req[r])
        /\ outcome[r].kind = "http_error" /\ outcome[r].status = 403
        /\ responses[r][1].status = 403
        /\ responses[r][1].body.success = FALSE

\* C4: the proxy never retries: a GET /djen request that passed the
\* parameter validation has caused exactly one upstream attempt, whether that
\* attempt is pending, succeeded, failed or timed out, and no request has
\* caused more than one.
C4_ExactlyOneAttempt ==
    \A r \in Reqs :
        /\ Len(calls[r]) <= 1
        /\ (Arrived(r) /\ IsGetDjen(req[r]) /\ req[r].bodyOk
               /\ ~DatesMissing(req[r].query)) => Len(calls[r]) = 1

C4_Witness ==
    \E r \in Reqs :
        /\ pc[r] = "done" /\ IsGetDjen(req[r])
        /\ outcome[r].kind = "timeout"
        /\ Len(calls[r]) = 1

\* C5: the parameters sent upstream are exactly the five relay parameters:
\* the two dates as received and, for nomeAdvogado, itensPorPagina and meio,
\* the request's value when supplied, else 'Eduardo Koetz', 100 and 'D'; the
\* endpoint is the same fixed URL for every request.
C5_RelayParams ==
    \A r \in Reqs : \A i \in 1..Len(calls[r]) :
        LET q == req[r].query
            c == calls[r][i]
        IN  /\ c.url = "https://comunicaapi.pje.jus.br/api/v1/comunicacao"
            /\ DOMAIN c.params = {"nomeAdvogado", "dataDisponibilizacaoInicio",
                                  "dataDisponibilizacaoFim", "itensPorPagina", "meio"}
            /\ c.params.dataDisponibilizacaoInicio = q.dataDisponibilizacaoInicio
            /\ c.params.dataDisponibilizacaoFim = q.dataDisponibilizacaoFim
            /\ c.params.nomeAdvogado =
                   (IF q.nomeAdvogado = Absent THEN "Eduardo Koetz" ELSE q.nomeAdvogado)
            /\ c.params.itensPorPagina =
                   (IF q.itensPorPagina = Absent THEN "100" ELSE q.itensPorPagina)
            /\ c.params.meio = (IF q.meio = Absent THEN "D" ELSE q.meio)

C5_Witness ==
    \E r \in Reqs :
        /\ IsGetDjen(req[r])
        /\ Len(calls[r]) = 1
        /\ req[r].query.nomeAdvogado = Absent
        /\ req[r].query.itensPorPagina = "50"
        /\ calls[r][1].params.nomeAdvogado = "Eduardo Koetz"
        /\ calls[r][1].params.itensPorPagina = "50"

IsGetOfRoute(rq) == rq.method = "GET" /\ rq.path \in {"/", "/health", "/djen"}

IsGetOrHeadOfRoute(rq) ==
    rq.method \in {"GET", "HEAD"} /\ rq.path \in {"/", "/health", "/djen"}

Is404WithEndpoints(resp) ==
    /\ resp.handler = "notFound"
    /\ resp.status = 404
    /\ resp.body.available_endpoints = <<"/", "/health", "/djen">>

\* C6 as stated: every request whose method and path match none of GET /,
\* GET /health, GET /djen is answered with 404 and the endpoint list and makes
\* no upstream call; a request that matches one is never answered by the 404
\* handler.
C6_Original ==
    \A r \in Reqs :
        Arrived(r) =>
            IF IsGetOfRoute(req[r])
              THEN \A i \in 1..Len(responses[r]) : responses[r][i].handler # "notFound"
              ELSE /\ pc[r] = "done"
                   /\ Len(responses[r]) = 1
                   /\ Is404WithEndpoints(responses[r][1])
                   /\ calls[r] = <<>>

\* C6 amended: every request that passes the cors() and express.json()
\* middleware (not an OPTIONS request, body parses) and is not a GET or HEAD
\* of /, /health or /djen is answered with 404 and the endpoint list and makes
\* no upstream call; no other request is answered by the 404 handler.
C6_NotFoundAmended ==
    \A r \in Reqs :
        Arrived(r) =>
            IF req[r].method # "OPTIONS" /\ req[r].bodyOk /\ ~IsGetOrHeadOfRoute(req[r])
              THEN /\ pc[r] = "done"
                   /\ Len(responses[r]) = 1
                   /\ Is404WithEndpoints(responses[r][1])
                   /\ calls[r] = <<>>
              ELSE \A i \in 1..Len(responses[r]) : responses[r][i].handler # "notFound"

C6_Witness ==
    \E r \in Reqs :
        /\ pc[r] = "done"
        /\ req[r].method = "POST" /\ req[r].path = "/djen" /\ req[r].bodyOk
        /\ Is404WithEndpoints(responses[r][1])
        /\ calls[r] = <<>>

ExternalIdUnique ==
    \A t \in NoticeTables : \A a, b \in notices[t] :
        a.id_intimacao = b.id_intimacao => a = b

\* C7: after any sequence of insert attempts, concurrent writers included,
\* no two stored notices share the same id_intimacao, and an insert that
\* collides on id_intimacao leaves the store unchanged.
C7_ExternalIdUnique ==
    /\ []ExternalIdUnique
    /\ [][\A w \in Writers :
            (/\ writer[w].pc = "insert"
             /\ writer'[w].pc = "idle"
             /\ \E e \in notices[writer[w].table] :
                    e.id_intimacao = writer[w].rec.id_intimacao)
            => (notices' = notices /\ writer'[w].last = "Duplicate")]_vars

\* a writer lost the race: its lookup found nothing, its insert was rejected
C7_Witness ==
    \E w \in Writers : \E t \in NoticeTables :
        /\ writer[w].last = "Duplicate"
        /\ writer[w].via = "constraint"
        /\ Cardinality({e \in notices[t] : e.id_intimacao = "i1"}) = 1
        /\ Cardinality(notices[t]) = 2

\* C8: in the notice store as the repository's schema definitions define it,
\* hash_conteudo is unique when present: no two stored rows share a non-NULL
\* hash_conteudo.
C8_ContentHashUnique ==
    \A t \in NoticeTables : \A a, b \in notices[t] :
        (a.hash_conteudo # NULL /\ a.hash_conteudo = b.hash_conteudo) => a = b

\* C9: every row of the run-log table has a status_execucao among 'sucesso',
\* 'parcial', 'erro', from the state the schema script leaves behind.
C9_StatusInEnum ==
    \A t \in LogTables : \A l \in logs[t] :
        l.status_execucao \in {"sucesso", "parcial", "erro"}

SeedRows == {l \in logs["logs_extracao_djen"] : l.status_execucao = "sistema_criado"}

\* C11: running create_tables.sql is idempotent: after two or more executions
\* the database holds the same tables and rows as after one; the initial
\* run-log row guarded by ON CONFLICT DO NOTHING exists exactly once however
\* many times the script has run.
C11_ScriptIdempotent ==
    scriptRuns >= 1 =>
        /\ {"intimacoes_eduardo_koetz", "logs_extracao_djen"} \subseteq tables
        /\ Cardinality(SeedRows) = 1

====
